---- MODULE Spec2Model ----
(***************************************************************************)
(* A model of diverter: the Username validator (src/username.rs), the VDF  *)
(* scanner (src/vdf/scanner.rs), the VDF parser and Document               *)
(* (src/vdf/parser.rs), the OkIter adapter (src/util.rs), scan_parse and   *)
(* LoginUser::from_vdf (src/vdf/mod.rs), the Steam operations and their    *)
(* errors (src/steam.rs) and the commands of main (src/main.rs).           *)
(*                                                                         *)
(* Bytes are the integers 0..255.  A byte slice is a sequence of bytes; a  *)
(* token's lexeme is kept as the half-open range [start, end) of offsets   *)
(* into the source, because the parser uses the lexeme's address as an Id. *)
(***************************************************************************)
EXTENDS Integers, Sequences, FiniteSets, TLC

VARIABLES
    input,      \* the byte slice handed to Username::try_from
    upc,        \* "start" before the conversion, "done" after it
    uresult,    \* the Result<Username, UsernameError> of the conversion
    source,     \* Scanner::source
    sc,         \* Scanner {start, current}
    out,        \* the items the Scanner's next() has returned so far, in order
    okError,    \* OkIter::error (NoError is Option::None)
    stack,      \* the sub_parent of every parse_one group loop that is open
    document,   \* Document.0, the rows pushed so far
    piece,      \* what the last parse_one call returned to the loop around it
    pc,         \* where scan_parse is: parse_one, loop, parsed, returned, idle
    result,     \* what parse returned: "none", "Ok" or a parser Error
    spResult,   \* what scan_parse returned
    cmd,        \* Cli::command with the flags of Set
    mpc,        \* where main is: main, steam_new, terminate, poll, launch,
                \* vdf_loginusers, read, scan_parse, from_vdf, for_each, exit
    calls,      \* the operations main has called so far, with their results
    killResult, \* kill_result of the restart: "none", "Ok" or an Error
    polls,      \* how often the graceful wait found the client running
    usersSub,   \* users_sub of from_vdf
    rowIdx,     \* how many rows the user_ids filter of from_vdf has consumed
    yielded,    \* the results the iterator of from_vdf has yielded so far
    existing,   \* existing_username of the List command
    stdout,     \* the lines printed with println!, in order
    stderr,     \* the lines printed with eprintln!, in order
    exitCode    \* the ExitCode main returned, NotExited before that

mainVars == <<cmd, mpc, calls, killResult, polls, usersSub, rowIdx, yielded,
              existing, stdout, stderr, exitCode>>

vars == <<input, upc, uresult, source, sc, out, okError, stack, document,
          piece, pc, result, spResult, mainVars>>

userVars == <<input, upc, uresult>>
scanVars == <<source, sc, out>>
parseVars == <<okError, stack, document, piece, pc, result, spResult>>

(***************************************************************************)
(* Bounds of the model.                                                    *)
(***************************************************************************)
MaxPolls == 2        \* how often the graceful wait may find the client running
MaxUsers == 3        \* most entries under "users" in the file List reads
MaxFields == 4       \* most leaves of the one user entry whose leaves vary
MaxInputLen == 34   \* longest byte slice handed to Username::try_from
MaxSrcLen == 5      \* longest source of the scanner specification
MaxExtraCalls == 3  \* calls of Scanner::next allowed beyond one per byte
MaxChunks == 6      \* most lexical chunks in a source of the parser specification
MaxLiveChunks == 2  \* the same, in the specification termination is checked under

(***************************************************************************)
(* Bytes                                                                   *)
(***************************************************************************)
NoByte == 0 - 1     \* Option::None of a byte
Quote == 34         \* b'"'
Backslash == 92     \* b'\\'
LBrace == 123       \* b'{'
RBrace == 125       \* b'}'

Min(a, b) == IF a < b THEN a ELSE b

IsAsciiWhitespace(c) == c \in {9, 10, 12, 13, 32}

IsUpper(c) == c >= 65 /\ c <= 90

ToAsciiLowercase(c) == IF IsUpper(c) THEN c + 32 ELSE c

\* matches!(src, b'a'..=b'z' | b'0'..=b'9' | b'A'..=b'Z' | b'_')
IsUsernameByte(c) ==
    \/ c >= 97 /\ c <= 122
    \/ c >= 48 /\ c <= 57
    \/ c >= 65 /\ c <= 90
    \/ c = 95

(***************************************************************************)
(* Username (src/username.rs)                                              *)
(***************************************************************************)
MAX_LEN == 32
MIN_LEN == 3

Uninit == 0 - 2     \* a MaybeUninit<u8> that was never written

UninitData == [i \in 1..(MAX_LEN + 1) |-> Uninit]

\* An Err(UsernameError): no Username, so no buffer.
UsernameErr(kind) == [kind |-> kind, data |-> <<>>, len |-> 0]

\* The zip loop of try_from: bytes i.. of username are checked and stored.
RECURSIVE TryFromLoop(_, _, _)
TryFromLoop(username, data, i) ==
    IF i > Min(Len(username), MAX_LEN + 1)
    THEN [ok |-> TRUE, data |-> data]
    ELSE IF ~IsUsernameByte(username[i])
         THEN [ok |-> FALSE, data |-> data]
         ELSE TryFromLoop(username,
                          [data EXCEPT ![i] = ToAsciiLowercase(username[i])],
                          i + 1)

\* try_from with the length field set to the length without the terminator.
TryFromLenWithoutNul(username) ==
    IF Len(username) >= MAX_LEN THEN UsernameErr("TooLong")
    ELSE IF Len(username) <= MIN_LEN THEN UsernameErr("TooShort")
    ELSE LET r == TryFromLoop(username, UninitData, 1) IN
         IF ~r.ok THEN UsernameErr("IllegalCharacters")
         ELSE [kind |-> "Ok",
               data |-> [r.data EXCEPT ![Len(username) + 1] = 0],
               len |-> Len(username)]

TryFrom(username) ==
    IF Len(username) >= MAX_LEN THEN UsernameErr("TooLong")
    ELSE IF Len(username) <= MIN_LEN THEN UsernameErr("TooShort")
    ELSE LET r == TryFromLoop(username, UninitData, 1) IN
         IF ~r.ok THEN UsernameErr("IllegalCharacters")
         ELSE [kind |-> "Ok",
               data |-> [r.data EXCEPT ![Len(username) + 1] = 0],
               len |-> Len(username) + 1]

as_bytes_with_nul(u) == [i \in 1..u.len |-> u.data[i]]

as_bytes(u) ==
    LET with_nul == as_bytes_with_nul(u) IN SubSeq(with_nul, 1, Len(with_nul) - 1)

\* The byte slices the conversion is tried on: n copies of a fill byte, with
\* one byte at position p replaced (p = 0 replaces nothing).
FillBytes == {97, 90, 95}
OddBytes == {0, 45, 47, 48, 57, 58, 64, 65, 91, 96, 122, 123, 255}

Inputs ==
    { [i \in 1..n |-> IF i = p THEN b ELSE f] :
        n \in 0..MaxInputLen, p \in 0..MaxInputLen, f \in FillBytes, b \in OddBytes }

IdleScan == source = <<>> /\ sc = [start |-> 0, current |-> 0] /\ out = <<>>

\* Option::None of a scan error, and Some of one.
NoError == [err |-> "none", byte |-> 0 - 1]

ScanError(err, byte) == [err |-> err, byte |-> byte]

IdleParse ==
    /\ okError = NoError /\ stack = <<>> /\ document = <<>> /\ piece = "none"
    /\ pc = "idle" /\ result = "none"
    /\ spResult = [kind |-> "none", scan |-> NoError, parse |-> "none"]

IdleUser == input = <<>> /\ upc = "idle" /\ uresult = UsernameErr("none")

NoId == 0 - 2       \* the id field of a row whose value is not Subkeys

NoBytes == <<NoByte>>   \* Option::None of a byte slice

NotExited == 0 - 1   \* main has not returned an ExitCode

Command(name, restart, graceful, verify) ==
    [name |-> name, restart |-> restart, graceful |-> graceful, verify |-> verify]

IdleMain ==
    /\ cmd = Command("none", FALSE, FALSE, FALSE)
    /\ mpc = "idle"
    /\ calls = <<>>
    /\ killResult = "none"
    /\ polls = 0
    /\ usersSub = NoId
    /\ rowIdx = 0
    /\ yielded = <<>>
    /\ existing = NoBytes
    /\ stdout = <<>>
    /\ stderr = <<>>
    /\ exitCode = NotExited

InitUser ==
    /\ input \in Inputs
    /\ upc = "start"
    /\ uresult = UsernameErr("none")
    /\ IdleScan
    /\ IdleParse
    /\ IdleMain

UsernameTryFrom ==
    /\ upc = "start"
    /\ uresult' = TryFrom(input)
    /\ upc' = "done"
    /\ UNCHANGED <<input, scanVars, parseVars, mainVars>>

NextUser == UsernameTryFrom

SpecUser == InitUser /\ [][NextUser]_vars

(***************************************************************************)
(* Claims about Username                                                   *)
(***************************************************************************)
AllUsernameBytes(s) == \A i \in 1..Len(s) : IsUsernameByte(s[i])

Folded(s) == [i \in 1..Len(s) |-> ToAsciiLowercase(s[i])]

\* C1: every byte slice of length 3..32 over [A-Za-z0-9_] converts, and
\* as_bytes() of the Username is the slice with upper case folded to lower.
C1_ValidConverts ==
    (upc = "done" /\ Len(input) >= 3 /\ Len(input) <= 32 /\ AllUsernameBytes(input))
        => (uresult.kind = "Ok" /\ as_bytes(uresult) = Folded(input))

\* C2: the error kind is the violated rule: TooLong exactly above 32 bytes,
\* TooShort exactly below 3, IllegalCharacters exactly for a length within
\* 3..32 with a byte outside the class (length is checked first).
C2_ErrorKinds ==
    upc = "done" =>
        /\ (uresult.kind = "TooLong") = (Len(input) > 32)
        /\ (uresult.kind = "TooShort") = (Len(input) < 3)
        /\ (uresult.kind = "IllegalCharacters")
              = (Len(input) >= 3 /\ Len(input) <= 32 /\ ~AllUsernameBytes(input))

\* C3: as_bytes_with_nul() of a constructed Username ends in a 0 byte, holds
\* no other 0 byte, and as_bytes() is it without that last byte.
C3_NulTerminated ==
    (upc = "done" /\ uresult.kind = "Ok") =>
        LET w == as_bytes_with_nul(uresult) IN
        /\ Len(w) >= 1
        /\ w[Len(w)] = 0
        /\ \A i \in 1..(Len(w) - 1) : w[i] # 0
        /\ Len(as_bytes(uresult)) = Len(w) - 1
        /\ \A i \in 1..(Len(w) - 1) : as_bytes(uresult)[i] = w[i]
        /\ Len(w) = Len(input) + 1

C3_Witness ==
    /\ upc = "done" /\ uresult.kind = "Ok"
    /\ Len(input) = 31
    /\ \E i \in 1..Len(input) : IsUpper(input[i])
    /\ as_bytes_with_nul(uresult)[32] = 0

(***************************************************************************)
(* Scanner (src/vdf/scanner.rs)                                            *)
(***************************************************************************)
NoneItem == [tag |-> "None", type |-> "none", start |-> 0, end |-> 0,
             err |-> "none", byte |-> NoByte]

\* Scanner::token with a lexeme that stops one byte before current.
TokenItemShort(type, s) == [tag |-> "Ok", type |-> type, start |-> s.start,
                            end |-> s.current - 1, err |-> "none", byte |-> NoByte]

\* Scanner::token with a lexeme that starts at the start of the source.
TokenItemFromZero(type, s) == [tag |-> "Ok", type |-> type, start |-> 0,
                               end |-> s.current, err |-> "none", byte |-> NoByte]

\* Scanner::token: the lexeme is source[start..current].
TokenItem(type, s) == [tag |-> "Ok", type |-> type, start |-> s.start,
                       end |-> s.current, err |-> "none", byte |-> NoByte]

ErrItem(err, byte) == [tag |-> "Err", type |-> "none", start |-> 0, end |-> 0,
                       err |-> err, byte |-> byte]

\* source.get(i).copied()
Get(src, i) == IF i < Len(src) THEN src[i + 1] ELSE NoByte

\* Every position past the end of the source reads as None, so positions are
\* kept up to Len(src) + 2 and no further (usize does not wrap within any
\* run that can be observed).
Cap(src, n) == Min(n, Len(src) + 2)

\* Scanner::advance: the byte at current, and current moves on even at the end.
advance(src, s) ==
    [c |-> Get(src, s.current), sc |-> [s EXCEPT !.current = Cap(src, @ + 1)]]

\* Scanner::peek
peek(src, s) == Get(src, s.current)

\* string_tail that, at the end of input, goes back to the byte after the
\* opening quote.
RECURSIVE string_tail_rewind(_, _)
string_tail_rewind(src, s) ==
    LET next == peek(src, s) IN
    IF next = Quote
    THEN LET s2 == [s EXCEPT !.current = @ + 1] IN
         [sc |-> s2, item |-> TokenItem("String", s2)]
    ELSE IF next = Backslash
         THEN string_tail_rewind(src, [s EXCEPT !.current = @ + 2])
         ELSE IF next # NoByte
              THEN string_tail_rewind(src, [s EXCEPT !.current = @ + 1])
              ELSE [sc |-> [s EXCEPT !.current = s.start + 1],
                    item |-> ErrItem("UnterminatedString", NoByte)]

\* string_tail that steps over a backslash alone, not over the pair.
RECURSIVE string_tail_single(_, _)
string_tail_single(src, s) ==
    LET next == peek(src, s) IN
    IF next = Quote
    THEN LET s2 == [s EXCEPT !.current = @ + 1] IN
         [sc |-> s2, item |-> TokenItem("String", s2)]
    ELSE IF next # NoByte
         THEN string_tail_single(src, [s EXCEPT !.current = @ + 1])
         ELSE [sc |-> s, item |-> ErrItem("UnterminatedString", NoByte)]

\* Scanner::string_tail: called with current just after the opening quote.
RECURSIVE string_tail(_, _)
string_tail(src, s) ==
    LET next == peek(src, s) IN
    IF next = Quote
    THEN LET s2 == [s EXCEPT !.current = @ + 1] IN
         [sc |-> s2, item |-> TokenItem("String", s2)]
    ELSE IF next = Backslash
         THEN string_tail(src, [s EXCEPT !.current = @ + 2])
         ELSE IF next # NoByte
              THEN string_tail(src, [s EXCEPT !.current = @ + 1])
              ELSE [sc |-> s, item |-> ErrItem("UnterminatedString", NoByte)]

\* <Scanner as Iterator>::next
RECURSIVE ScannerNextOf(_, _)
ScannerNextOf(src, s) ==
    LET a == advance(src, [s EXCEPT !.start = s.current])
        head == a.c
        s1 == a.sc
    IN  IF head # NoByte /\ IsAsciiWhitespace(head) THEN ScannerNextOf(src, s1)
        ELSE IF head = Quote THEN string_tail(src, s1)
        ELSE IF head = LBrace
             THEN [sc |-> s1, item |-> TokenItem("BraceLeft", s1)]
        ELSE IF head = RBrace
             THEN [sc |-> s1, item |-> TokenItem("BraceRight", s1)]
        ELSE IF head # NoByte
             THEN [sc |-> s1, item |-> ErrItem("UnexpectedToken", head)]
        ELSE [sc |-> s1, item |-> NoneItem]

\* Scanner::new
ScannerNew == [start |-> 0, current |-> 0]

\* The lexeme of a token, as bytes.
Lexeme(src, tok) == SubSeq(src, tok.start + 1, tok.end)

ScanAlphabet == {Quote, Backslash, LBrace, RBrace, 32, 97}

ScanSources == UNION { [1..n -> ScanAlphabet] : n \in 0..MaxSrcLen }

InitScan ==
    /\ source \in ScanSources
    /\ sc = ScannerNew
    /\ out = <<>>
    /\ IdleUser
    /\ IdleParse
    /\ IdleMain

\* One call of next() on the Scanner by its owner.
ScannerNext ==
    /\ pc = "idle" /\ upc = "idle"
    /\ Len(out) < Len(source) + MaxExtraCalls
    /\ LET r == ScannerNextOf(source, sc) IN
       /\ sc' = r.sc
       /\ out' = Append(out, r.item)
    /\ UNCHANGED <<source, userVars, parseVars, mainVars>>

NextScan == ScannerNext

SpecScan == InitScan /\ [][NextScan]_vars

(***************************************************************************)
(* Claims about the Scanner                                                *)
(***************************************************************************)
\* C10: once next() has yielded an error, UnexpectedToken or
\* UnterminatedString, every later next() yields None.
C10_ErrorThenNone ==
    \A i \in 1..Len(out) : \A j \in 1..Len(out) :
        (i < j /\ out[i].tag = "Err") => out[j].tag = "None"

\* C10 as amended: once next() has yielded UnterminatedString, every later
\* next() yields None.
C10_UnterminatedThenNone ==
    \A i \in 1..Len(out) : \A j \in 1..Len(out) :
        (i < j /\ out[i].err = "UnterminatedString") => out[j].tag = "None"

C10_Witness ==
    /\ Len(out) >= 3
    /\ out[1].tag = "Ok"
    /\ out[2].err = "UnterminatedString"
    /\ Len(source) >= out[1].end + 3
    /\ out[3].tag = "None"

\* The offset of the first byte at or after p that is not ASCII whitespace,
\* the length of the source when there is none.
RECURSIVE FirstByte(_, _)
FirstByte(src, p) ==
    IF p >= Len(src) THEN Len(src)
    ELSE IF src[p + 1] \in {9, 10, 12, 13, 32} THEN FirstByte(src, p + 1)
    ELSE p

\* The offset of the quote that closes a string literal, looked for from
\* offset i on: the first quote that is not the second byte of a backslash
\* pair, pairs taken left to right; -1 when the source ends first.
RECURSIVE ClosingQuote(_, _)
ClosingQuote(src, i) ==
    IF i >= Len(src) THEN 0 - 1
    ELSE IF src[i + 1] = Backslash THEN ClosingQuote(src, i + 2)
    ELSE IF src[i + 1] = Quote THEN i
    ELSE ClosingQuote(src, i + 1)

\* The call of next() that is being made meets a string literal that the
\* end of input cuts short.
EndsInsideString(src, s) ==
    LET p == FirstByte(src, s.current) IN
    /\ p < Len(src)
    /\ src[p + 1] = Quote
    /\ ClosingQuote(src, p + 1) = 0 - 1

\* C11: when the end of input is reached inside a string literal (also
\* after a last backslash, or with the only quote left escaped) next()
\* yields UnterminatedString, not a String token; every lexeme lies inside
\* the source; and nothing but None is yielded afterwards.
C11_UnterminatedString ==
    /\ [][EndsInsideString(source, sc) =>
            /\ out'[Len(out')].err = "UnterminatedString"
            /\ ScannerNextOf(source, sc').item = NoneItem]_vars
    /\ [](\A i \in 1..Len(out) :
            /\ out[i].tag = "Ok" =>
                  (0 <= out[i].start /\ out[i].start < out[i].end
                   /\ out[i].end <= Len(source))
            /\ out[i].err = "UnterminatedString" =>
                  \A j \in (i + 1)..Len(out) : out[j] = NoneItem)

\* `{"\"` : the only quote left is escaped by the backslash before it.
C11_Witness ==
    /\ source = <<LBrace, Quote, Backslash, Quote>>
    /\ Len(out) = 3
    /\ out[1].type = "BraceLeft"
    /\ out[2] = ErrItem("UnterminatedString", NoByte)
    /\ out[3] = NoneItem

\* The reference tokenization of the source from offset p on, up to and
\* including its first error: whitespace gives nothing, a brace is a token
\* of one byte, a quote opens a string token that runs to its closing
\* quote, and any other byte is an UnexpectedToken error carrying it.
RECURSIVE RefItems(_, _)
RefItems(src, p) ==
    LET q == FirstByte(src, p) IN
    IF q >= Len(src) THEN <<>>
    ELSE LET c == src[q + 1]
             close == ClosingQuote(src, q + 1)
             tok(type, e) == [tag |-> "Ok", type |-> type, start |-> q,
                              end |-> e, err |-> "none", byte |-> NoByte]
             fail(err, b) == [tag |-> "Err", type |-> "none", start |-> 0,
                              end |-> 0, err |-> err, byte |-> b]
         IN  IF c = LBrace THEN <<tok("BraceLeft", q + 1)>> \o RefItems(src, q + 1)
             ELSE IF c = RBrace
                  THEN <<tok("BraceRight", q + 1)>> \o RefItems(src, q + 1)
             ELSE IF c = Quote
                  THEN IF close = 0 - 1
                       THEN <<fail("UnterminatedString", NoByte)>>
                       ELSE <<tok("String", close + 1)>> \o RefItems(src, close + 1)
             ELSE <<fail("UnexpectedToken", c)>>

\* The number of items next() has yielded up to and including its first
\* error, all of them when it yielded no error.
UpToFirstError(items) ==
    LET errs == {i \in 1..Len(items) : items[i].tag = "Err"} IN
    IF errs = {} THEN Len(items)
    ELSE CHOOSE i \in errs : \A j \in errs : i <= j

\* C12: up to its first error the Scanner yields the reference
\* tokenization of the source, and None once that is used up; string
\* lexemes open and close with a quote and are two bytes or more, brace
\* lexemes are one byte, lexemes are disjoint and in source order, and every
\* byte before or between them is ASCII whitespace.
C12_ReferenceTokens ==
    LET ref == RefItems(source, 0) IN
    \A i \in 1..UpToFirstError(out) :
        /\ out[i] = IF i <= Len(ref) THEN ref[i] ELSE NoneItem
        /\ out[i].tag = "Ok" =>
              LET from == IF i = 1 THEN 0 ELSE out[i - 1].end IN
              /\ from <= out[i].start
              /\ \A k \in (from + 1)..out[i].start :
                    source[k] \in {9, 10, 12, 13, 32}
              /\ out[i].type = "String" =>
                    /\ out[i].end - out[i].start >= 2
                    /\ source[out[i].start + 1] = Quote
                    /\ source[out[i].end] = Quote
              /\ out[i].type \in {"BraceLeft", "BraceRight"} =>
                    /\ out[i].end = out[i].start + 1
                    /\ source[out[i].end] =
                          (IF out[i].type = "BraceLeft" THEN LBrace ELSE RBrace)

\* ` "\""` : a space, then one string with an escaped quote inside.
C12_Witness ==
    /\ source = <<32, Quote, Backslash, Quote, Quote>>
    /\ Len(out) = 2
    /\ out[1] = [tag |-> "Ok", type |-> "String", start |-> 1, end |-> 5,
                 err |-> "none", byte |-> NoByte]
    /\ out[2] = NoneItem

(***************************************************************************)
(* OkIter (src/util.rs)                                                    *)
(***************************************************************************)
\* <OkIter as Iterator>::next over a Scanner: s is the inner Scanner, e the
\* error field.  The inner iterator is asked only while no error is stored.
OkIterNext(src, s, e) ==
    IF e = NoError
    THEN LET r == ScannerNextOf(src, s) IN
         IF r.item.tag = "Ok" THEN [sc |-> r.sc, error |-> e, item |-> r.item]
         ELSE IF r.item.tag = "Err"
              THEN [sc |-> r.sc, error |-> ScanError(r.item.err, r.item.byte),
                    item |-> NoneItem]
              ELSE [sc |-> r.sc, error |-> e, item |-> NoneItem]
    ELSE [sc |-> s, error |-> e, item |-> NoneItem]

(***************************************************************************)
(* Parser and Document (src/vdf/parser.rs)                                 *)
(***************************************************************************)
\* Id::ROOT is Id(!0), all bits set: -1 as a signed number.  Every other Id
\* is the address of a key's lexeme, kept as its offset into the source.
ROOT == 0 - 1

StringValue(bytes) == [kind |-> "String", bytes |-> bytes, id |-> NoId]

SubkeysValue(id) == [kind |-> "Subkeys", bytes |-> <<>>, id |-> id]

KeyValue(parent, key, value) == [parent |-> parent, key |-> key, value |-> value]

\* unsurround that removes the first byte only.
unsurround_first(s) == SubSeq(s, 2, Len(s))

\* unsurround: &s[1..s.len() - 1]
unsurround(s) == SubSeq(s, 2, Len(s) - 1)

\* The index of the first row under `at` with key `key`, 0 when there is none.
RECURSIVE FindRow(_, _, _, _)
FindRow(doc, at, key, i) ==
    IF i > Len(doc) THEN 0
    ELSE IF doc[i].parent = at /\ doc[i].key = key THEN i
    ELSE FindRow(doc, at, key, i + 1)

\* subkeys that looks for the first matching row that is a group.
subkeys_first_group(doc, at, key) ==
    LET m == {i \in 1..Len(doc) : /\ doc[i].parent = at /\ doc[i].key = key
                                  /\ doc[i].value.kind = "Subkeys"} IN
    IF m = {} THEN NoId
    ELSE doc[CHOOSE i \in m : \A j \in m : i <= j].value.id

\* Document::subkeys: NoId is Option::None.
subkeys(doc, at, key) ==
    LET i == FindRow(doc, at, key, 1) IN
    IF i # 0 /\ doc[i].value.kind = "Subkeys" THEN doc[i].value.id ELSE NoId

\* Document::value_str
value_str(doc, at, name) ==
    LET i == FindRow(doc, at, name, 1) IN
    IF i # 0 /\ doc[i].value.kind = "String" THEN doc[i].value.bytes ELSE NoBytes

\* What one call of parse_one does up to its return or up to the point where
\* it enters its group loop: the new scanner and OkIter state, the document,
\* the open groups, and either the terminal handed to the loop around the
\* call (piece), an error (result), or a newly opened group.
ParseOneRet(s, e, stk, doc, pce) ==
    [sc |-> s, error |-> e, stack |-> stk, document |-> doc, piece |-> pce,
     result |-> "none", pc |-> "loop"]

ParseOneErr(s, e, stk, doc, err) ==
    [sc |-> s, error |-> e, stack |-> stk, document |-> doc, piece |-> "none",
     result |-> err, pc |-> "parsed"]

parse_one(src, s, e, stk, doc) ==
    LET parent == IF stk = <<>> THEN ROOT ELSE stk[Len(stk)]
        brace_terminal == stk # <<>>
        h == OkIterNext(src, s, e)
        head == h.item
    IN
    IF head.tag = "None" THEN ParseOneRet(h.sc, h.error, stk, doc, "Eof")
    ELSE IF head.type = "BraceLeft"
    THEN ParseOneErr(h.sc, h.error, stk, doc, "UnexpectedBraceLeftNoName")
    ELSE IF head.type = "BraceRight"
    THEN IF brace_terminal
         THEN ParseOneRet(h.sc, h.error, stk, doc, "BlockEnd")
         ELSE ParseOneErr(h.sc, h.error, stk, doc, "UnexpectedBraceRightNoMatch")
    ELSE LET name == head
             v == OkIterNext(src, h.sc, h.error)
             value == v.item
         IN
         IF value.tag = "None"
         THEN ParseOneErr(v.sc, v.error, stk, doc, "ExpectedKeyValueAfterKeyName")
         ELSE IF value.type = "String"
         THEN ParseOneRet(v.sc, v.error, stk,
                  Append(doc, KeyValue(parent, unsurround(Lexeme(src, name)),
                                       StringValue(unsurround(Lexeme(src, value))))),
                  "Yield")
         ELSE IF value.type = "BraceLeft"
         THEN LET sub_parent == name.start IN
              [sc |-> v.sc, error |-> v.error,
               stack |-> Append(stk, sub_parent),
               document |-> Append(doc, KeyValue(parent,
                                unsurround(Lexeme(src, name)),
                                SubkeysValue(sub_parent))),
               piece |-> "none", result |-> "none", pc |-> "parse_one"]
         ELSE ParseOneErr(v.sc, v.error, stk, doc, "UnexpectedBraceRightNoMatch")

\* The sources scan_parse is run on: up to MaxChunks chunks, each a string
\* literal "a" or "A", a brace, a lone quote (which unbalances the quotes
\* that follow it) or the leaf entry "a""a".
Chunks == << <<Quote, 97, Quote>>, <<Quote, 65, Quote>>, <<LBrace>>, <<RBrace>>,
             <<Quote>>, <<Quote, 97, Quote, Quote, 97, Quote>> >>

\* The same and a space, for the runs whose termination is checked.
LiveChunks == Chunks \o << <<32>> >>

RECURSIVE Concat(_, _, _)
Concat(chunks, f, i) ==
    IF i > Len(f) THEN <<>> ELSE chunks[f[i]] \o Concat(chunks, f, i + 1)

ChunkChoices(chunks, n) == [1..n -> 1..Len(chunks)]

\* scan_parse has built OkIter::new(Scanner::new(source)) and parse has made
\* the empty Document; parse is about to call parse_one.
ParseStart ==
    /\ sc = ScannerNew
    /\ out = <<>>
    /\ okError = NoError
    /\ stack = <<>>
    /\ document = <<>>
    /\ piece = "none"
    /\ pc = "parse_one"
    /\ result = "none"
    /\ spResult = [kind |-> "none", scan |-> NoError, parse |-> "none"]
    /\ IdleUser
    /\ IdleMain

InitParse ==
    /\ \E n \in 0..MaxChunks : \E f \in ChunkChoices(Chunks, n) :
          source = Concat(Chunks, f, 1)
    /\ ParseStart

InitParseLive ==
    /\ \E n \in 0..MaxLiveChunks : \E f \in ChunkChoices(LiveChunks, n) :
          source = Concat(LiveChunks, f, 1)
    /\ ParseStart

\* A call of parse_one, from the loop of parse (no group open) or from the
\* group loop of the innermost open group.
ParseOne ==
    /\ pc = "parse_one"
    /\ \E r \in {parse_one(source, sc, okError, stack, document)} :  \* one call
       /\ sc' = r.sc
       /\ okError' = r.error
       /\ stack' = r.stack
       /\ document' = r.document
       /\ piece' = r.piece
       /\ result' = r.result
       /\ pc' = r.pc
    /\ UNCHANGED <<source, out, spResult, userVars, mainVars>>

\* The test parse makes on what parse_one returned (parser.rs:148).
ParseBreaks(pce) == pce # "Eof"

\* The test the group loop makes on what parse_one returned (parser.rs:133).
GroupBreaks(pce) == pce = "BlockEnd"

\* The loop around the call of parse_one that has just returned: the loop of
\* parse when no group is open, else the loop of the innermost group, which
\* on its break returns Yield to the loop around it.
LoopTest ==
    /\ pc = "loop"
    /\ IF stack = <<>>
       THEN IF ParseBreaks(piece)
            THEN /\ result' = "Ok"
                 /\ pc' = "parsed"
                 /\ piece' = "none"
                 /\ UNCHANGED stack
            ELSE /\ pc' = "parse_one"
                 /\ piece' = "none"
                 /\ UNCHANGED <<result, stack>>
       ELSE IF GroupBreaks(piece)
            THEN /\ stack' = SubSeq(stack, 1, Len(stack) - 1)
                 /\ piece' = "Yield"
                 /\ UNCHANGED <<pc, result>>
            ELSE /\ pc' = "parse_one"
                 /\ piece' = "none"
                 /\ UNCHANGED <<result, stack>>
    /\ UNCHANGED <<source, sc, out, okError, document, spResult, userVars, mainVars>>

\* scan_parse that looks at the stored scan error only when parse succeeded.
ScanParseResultParseFirst(e, res) ==
    IF res # "Ok" THEN [kind |-> "ParseError", scan |-> NoError, parse |-> res]
    ELSE IF e # NoError THEN [kind |-> "ScanError", scan |-> e, parse |-> "none"]
    ELSE [kind |-> "Ok", scan |-> NoError, parse |-> "none"]

\* scan_parse after parse has returned: a stored scan error wins.
ScanParseResult(e, res) ==
    IF e # NoError THEN [kind |-> "ScanError", scan |-> e, parse |-> "none"]
    ELSE IF res = "Ok" THEN [kind |-> "Ok", scan |-> NoError, parse |-> "none"]
    ELSE [kind |-> "ParseError", scan |-> NoError, parse |-> res]

ScanParseReturn ==
    /\ pc = "parsed"
    /\ spResult' = ScanParseResult(okError, result)
    /\ pc' = "returned"
    /\ UNCHANGED <<source, sc, out, okError, stack, document, piece, result,
                   userVars, mainVars>>

NextParse == ParseOne \/ LoopTest \/ ScanParseReturn

SpecParse == InitParse /\ [][NextParse]_vars

\* parse and scan_parse run on one thread that nothing stops: whenever a
\* step of them can be taken, one is.
FairSpecParse == InitParseLive /\ [][NextParse]_vars /\ WF_vars(NextParse)

(***************************************************************************)
(* Steam operations and their errors (src/steam.rs)                        *)
(***************************************************************************)
\* CPhase: the phase a native call reports in the CResult it returns.  The
\* native code is outside the model: a call may report any phase.
CPhases == {"Ok", "ReadSteamRegistry", "WriteSteamRegistry", "LaunchSteam",
            "WaitSteamExit", "EnumProcesses", "KillSteam", "FileOpenVdf"}

\* The translation with the arms of LaunchSteam and WaitSteamExit swapped.
ErrorOfSwapped(phase) ==
    IF phase = "Ok" THEN "None"
    ELSE IF phase = "FileOpenVdf" THEN "VdfOpen"
    ELSE IF phase = "WaitSteamExit" THEN "LaunchSteam"
    ELSE IF phase = "LaunchSteam" THEN "WaitSteamExit"
    ELSE phase

\* From<CResult> for Option<Error>: "None" is Option::None, else the Error
\* variant of the phase.
ErrorOf(phase) ==
    IF phase = "Ok" THEN "None"
    ELSE IF phase = "FileOpenVdf" THEN "VdfOpen"
    ELSE phase

\* err_opt for an operation whose Ok value is (): "Ok" or the Error.
err_opt(error) == IF error = "None" THEN "Ok" ELSE error

\* From<&Error> for ExitCode
ExitCodeOf(e) == IF e = "InvalidUsernameInRegistry" THEN 78 ELSE 69

SUCCESS == 0   \* ExitCode::SUCCESS

\* What the registry may hold for the auto-login user: `aaaa`, `bbbb`, `aaa`
\* and `a-aa`.
RegistryValues == {<<97, 97, 97, 97>>, <<98, 98, 98, 98>>, <<97, 97, 97>>,
                   <<97, 45, 97, 97>>}

\* Steam::get_auto_login_user, for the phase and the bytes the native call
\* gives back: err is "Ok" or the Error, username the bytes of the Username.
get_auto_login_user(phase, data) ==
    IF ErrorOf(phase) # "None"
    THEN [err |-> ErrorOf(phase), username |-> NoBytes]
    ELSE LET u == TryFrom(data) IN
         IF u.kind = "Ok" THEN [err |-> "Ok", username |-> as_bytes(u)]
         ELSE [err |-> "InvalidUsernameInRegistry", username |-> NoBytes]

(***************************************************************************)
(* LoginUser::from_vdf (src/vdf/mod.rs)                                    *)
(***************************************************************************)
UsersKey == <<117, 115, 101, 114, 115>>                                \* b"users"
AccountNameKey == <<65, 99, 99, 111, 117, 110, 116, 78, 97, 109, 101>> \* b"AccountName"
PersonaNameKey == <<80, 101, 114, 115, 111, 110, 97, 78, 97, 109, 101>> \* b"PersonaName"
AllowAutoLoginKey ==                                                   \* b"AllowAutoLogin"
    <<65, 108, 108, 111, 119, 65, 117, 116, 111, 76, 111, 103, 105, 110>>

\* Ok(LoginUser {..}) and Err(LoginUserVdfError) as the iterator's items.
LoginUser(username, nickname, allow_auto_login) ==
    [tag |-> "Ok", err |-> "none", username |-> username, nickname |-> nickname,
     allow_auto_login |-> allow_auto_login]

LoginUserErr(err) ==
    [tag |-> "Err", err |-> err, username |-> NoBytes, nickname |-> NoBytes,
     allow_auto_login |-> FALSE]

\* The flag read off the first byte of the value.
AllowAutoLoginFirstByte(value) ==
    IF value = NoBytes THEN FALSE ELSE Len(value) > 0 /\ value[1] # 48

\* map_or(false, |value| value != b"0") on what value_str gave.
AllowAutoLoginOf(value) ==
    IF value = NoBytes THEN FALSE ELSE value # <<48>>

\* The closure from_vdf maps over the rows under "users".
LoginUserOf(doc, user_sub) ==
    IF user_sub.value.kind = "Subkeys"
    THEN LET user_keyvals == user_sub.value.id
             username == value_str(doc, user_keyvals, AccountNameKey)
             nickname == value_str(doc, user_keyvals, PersonaNameKey)
         IN  IF username = NoBytes THEN LoginUserErr("ExpectedAccountNameKey")
             ELSE IF nickname = NoBytes THEN LoginUserErr("ExpectedPersonaNameKey")
             ELSE LoginUser(username, nickname,
                     AllowAutoLoginOf(value_str(doc, user_keyvals, AllowAutoLoginKey)))
    ELSE LoginUserErr("ExpectedUserEntryToBeSubkeys")

\* The filter that lets only the groups under `at` through.
RECURSIVE NextRowGroups(_, _, _)
NextRowGroups(doc, at, i) ==
    IF i >= Len(doc) THEN 0
    ELSE IF doc[i + 1].parent = at /\ doc[i + 1].value.kind = "Subkeys" THEN i + 1
    ELSE NextRowGroups(doc, at, i + 1)

\* next() of document.0.iter().filter(|row| row.parent == users_sub) after
\* i rows were consumed: the index of the row it gives, 0 for None.
RECURSIVE NextRow(_, _, _)
NextRow(doc, at, i) ==
    IF i >= Len(doc) THEN 0
    ELSE IF doc[i + 1].parent = at THEN i + 1
    ELSE NextRow(doc, at, i + 1)

\* The text of loginusers.vdf: a quoted string, a leaf and a group.
Str(bytes) == <<Quote>> \o bytes \o <<Quote>>

Leaf(key, value) == <<9>> \o Str(key) \o <<32>> \o Str(value) \o <<10>>

Group(key, body) == Str(key) \o <<10, LBrace, 10>> \o body \o <<RBrace, 10>>

\* The leaves a user entry is made of: AccountName aaaa, PersonaName A, and
\* AllowAutoLogin with 0, with 1, with the empty string and with 00.
Fields == << Leaf(AccountNameKey, <<97, 97, 97, 97>>),
             Leaf(PersonaNameKey, <<65>>),
             Leaf(AllowAutoLoginKey, <<48>>),
             Leaf(AllowAutoLoginKey, <<49>>),
             Leaf(AllowAutoLoginKey, <<>>),
             Leaf(AllowAutoLoginKey, <<48, 48>>) >>

\* The entries under "users": user aaaa, user bbbb that allows auto-login,
\* an entry that is a leaf, a user without AccountName, one without
\* PersonaName and an empty group.
UserEntries ==
    << Group(<<49>>, Fields[1] \o Fields[2]),
       Group(<<50>>, Leaf(AccountNameKey, <<98, 98, 98, 98>>)
                     \o Leaf(PersonaNameKey, <<66>>) \o Fields[4]),
       Leaf(<<51>>, <<97>>),
       Group(<<52>>, Fields[2]),
       Group(<<53>>, Fields[1]),
       Group(<<54>>, <<>>) >>

\* What loginusers.vdf may hold: "users" with up to MaxUsers entries, "users"
\* with one entry of up to MaxFields leaves, and files without a "users"
\* group or that do not scan or parse.
VdfSources ==
    {Group(UsersKey, Concat(UserEntries, f, 1)) :
        f \in UNION {ChunkChoices(UserEntries, n) : n \in 0..MaxUsers}}
    \cup {Group(UsersKey, Group(<<49>>, Concat(Fields, f, 1))) :
        f \in UNION {ChunkChoices(Fields, n) : n \in 0..MaxFields}}
    \cup {<<>>, Leaf(UsersKey, <<97>>), Leaf(<<97>>, <<97>>),
          Str(UsersKey) \o <<RBrace>>, Str(UsersKey) \o <<LBrace, Quote>>,
          Group(<<97>>, <<>>) \o Group(UsersKey, UserEntries[1])}

(***************************************************************************)
(* main (src/main.rs)                                                      *)
(***************************************************************************)
Call(op, res) == [op |-> op, res |-> res]

\* A line of eprintln!: its text and the error it shows ("None" without).
Line(msg, err) == [msg |-> msg, err |-> err]

\* A line of println!: the mark, the username and the nickname.
UserLine(selected, username, nickname) ==
    [selected |-> selected, username |-> username, nickname |-> nickname]

restartVars == <<killResult, polls>>
listVars == <<usersSub, rowIdx, yielded, existing>>

\* Command::Get
MainGet ==
    /\ mpc = "main" /\ cmd.name = "Get"
    /\ \E phase \in CPhases, data \in RegistryValues :
          LET r == get_auto_login_user(phase, data) IN
          /\ calls' = Append(calls, Call("get_auto_login_user", r.err))
          /\ IF r.err = "Ok"
             THEN /\ stdout' = Append(stdout, UserLine(FALSE, r.username, <<>>))
                  /\ UNCHANGED stderr
             ELSE /\ stderr' = Append(stderr, Line("Error", r.err))
                  /\ UNCHANGED stdout
    /\ mpc' = "exit"
    /\ exitCode' = SUCCESS
    /\ UNCHANGED <<cmd, restartVars, listVars, userVars, scanVars, parseVars>>

\* Command::Set up to the test of the restart flags.
MainSet ==
    /\ mpc = "main" /\ cmd.name = "Set"
    /\ \E phase \in CPhases :
          LET r == err_opt(ErrorOf(phase)) IN
          /\ calls' = Append(calls, Call("set_auto_login_user", r))
          /\ IF r # "Ok"
             THEN /\ stderr' = Append(stderr, Line("Failed to set the new username", r))
                  /\ mpc' = "exit"
                  /\ exitCode' = ExitCodeOf(r)
             ELSE IF cmd.restart \/ cmd.graceful \/ cmd.verify
                  THEN /\ mpc' = "steam_new"
                       /\ UNCHANGED <<stderr, exitCode>>
                  ELSE /\ mpc' = "exit"
                       /\ exitCode' = SUCCESS
                       /\ UNCHANGED stderr
    /\ UNCHANGED <<cmd, stdout, restartVars, listVars, userVars, scanVars, parseVars>>

\* Steam::new of the restart.
SetSteamNew ==
    /\ mpc = "steam_new"
    /\ \E phase \in CPhases :
          LET r == err_opt(ErrorOf(phase)) IN
          /\ calls' = Append(calls, Call("new", r))
          /\ IF r = "Ok"
             THEN /\ mpc' = "terminate"
                  /\ UNCHANGED <<stderr, exitCode>>
             ELSE /\ stderr' = Append(stderr, Line("Failed to find Steam to restart it", r))
                  /\ mpc' = "exit"
                  /\ exitCode' = SUCCESS
    /\ UNCHANGED <<cmd, stdout, restartVars, listVars, userVars, scanVars, parseVars>>

\* steam.kill().map(|_| ()) of the forceful restart.
SetKill ==
    /\ mpc = "terminate" /\ ~cmd.graceful
    /\ \E phase \in CPhases :
          LET r == err_opt(ErrorOf(phase)) IN
          /\ calls' = Append(calls, Call("kill", r))
          /\ killResult' = r
    /\ mpc' = "launch"
    /\ UNCHANGED <<cmd, polls, stdout, stderr, exitCode, listVars, userVars,
                   scanVars, parseVars>>

\* steam.shutdown_poll of the graceful restart, its call of shutdown: when
\* that fails the error is what shutdown_poll returns, else the wait begins.
SetShutdown ==
    /\ mpc = "terminate" /\ cmd.graceful
    /\ \E phase \in CPhases :
          LET r == err_opt(ErrorOf(phase)) IN
          /\ calls' = Append(calls, Call("shutdown", r))
          /\ IF r = "Ok"
             THEN /\ mpc' = "poll"
                  /\ UNCHANGED killResult
             ELSE /\ mpc' = "launch"
                  /\ killResult' = r
    /\ UNCHANGED <<cmd, polls, stdout, stderr, exitCode, listVars, userVars,
                   scanVars, parseVars>>

\* steam.shutdown_poll, one round of its wait: is_running is asked; an error
\* or `not running` ends the wait, else it sleeps and asks again.  The
\* client is found running MaxPolls times at most.
SetPoll ==
    /\ mpc = "poll"
    /\ \E phase \in CPhases, running \in BOOLEAN :
          LET r == err_opt(ErrorOf(phase)) IN
          /\ (r = "Ok" /\ running) => polls < MaxPolls
          /\ calls' = Append(calls, Call("is_running", r))
          /\ IF r = "Ok" /\ running
             THEN /\ polls' = polls + 1
                  /\ UNCHANGED <<mpc, killResult>>
             ELSE /\ mpc' = "launch"
                  /\ killResult' = r
                  /\ UNCHANGED polls
    /\ UNCHANGED <<cmd, stdout, stderr, exitCode, listVars, userVars,
                   scanVars, parseVars>>

\* The line about kill_result that tells of success whatever it is.
KillReportOk(graceful, res) ==
    Line(IF graceful THEN "Steam has been shut down" ELSE "Steam has been killed",
         "None")

\* The line main prints about kill_result.
KillReport(graceful, res) ==
    IF res = "Ok"
    THEN Line(IF graceful THEN "Steam has been shut down"
              ELSE "Steam has been killed", "None")
    ELSE Line(IF graceful
              THEN "Failed to shut down Steam to restart it. Will still try to launch it.."
              ELSE "Failed to kill Steam to restart it. Will still try to launch it..",
              res)

\* The launch that takes the other operation.
LaunchOpSwapped(verify) == IF verify THEN "launch_fast" ELSE "launch"

\* The operation the restart launches the client with.
LaunchOp(verify) == IF verify THEN "launch" ELSE "launch_fast"

\* The rest of the restart: kill_result is reported, the client is launched,
\* the result of that is reported, and main returns.
SetLaunch ==
    /\ mpc = "launch"
    /\ \E phase \in CPhases :
          LET r == err_opt(ErrorOf(phase)) IN
          /\ calls' = Append(calls, Call(LaunchOp(cmd.verify), r))
          /\ stderr' = stderr \o
                <<KillReport(cmd.graceful, killResult),
                  IF r = "Ok" THEN Line("Launched Steam", "None")
                  ELSE Line("Failed to re-launch Steam", r)>>
    /\ mpc' = "exit"
    /\ exitCode' = SUCCESS
    /\ UNCHANGED <<cmd, stdout, restartVars, listVars, userVars, scanVars, parseVars>>

\* Command::List up to the call of vdf_loginusers.
ListSteamNew ==
    /\ mpc = "main" /\ cmd.name = "List"
    /\ \E phase \in CPhases :
          LET r == err_opt(ErrorOf(phase)) IN
          /\ calls' = Append(calls, Call("new", r))
          /\ IF r = "Ok"
             THEN /\ mpc' = "vdf_loginusers"
                  /\ UNCHANGED <<stderr, exitCode>>
             ELSE /\ stderr' = Append(stderr, Line("Failed to find Steam", r))
                  /\ mpc' = "exit"
                  /\ exitCode' = ExitCodeOf(r)
    /\ UNCHANGED <<cmd, stdout, restartVars, listVars, userVars, scanVars, parseVars>>

ListVdfLoginusers ==
    /\ mpc = "vdf_loginusers"
    /\ \E phase \in CPhases :
          LET r == err_opt(ErrorOf(phase)) IN
          /\ calls' = Append(calls, Call("vdf_loginusers", r))
          /\ IF r = "Ok"
             THEN /\ mpc' = "read"
                  /\ UNCHANGED <<stderr, exitCode>>
             ELSE /\ stderr' = Append(stderr,
                                      Line("Failed to find logged in users data", r))
                  /\ mpc' = "exit"
                  /\ exitCode' = ExitCodeOf(r)
    /\ UNCHANGED <<cmd, stdout, restartVars, listVars, userVars, scanVars, parseVars>>

\* read_to_string, and on its success the call of scan_parse, whose steps
\* are ParseOne, LoopTest and ScanParseReturn.
ListRead ==
    /\ mpc = "read"
    /\ \/ /\ calls' = Append(calls, Call("read_to_string", "io::Error"))
          /\ stderr' = Append(stderr,
                              Line("Failed to read logged in users data", "io::Error"))
          /\ mpc' = "exit"
          /\ exitCode' = 69
          /\ UNCHANGED <<source, pc>>
       \/ /\ calls' = Append(calls, Call("read_to_string", "Ok"))
          /\ source' \in VdfSources
          /\ pc' = "parse_one"
          /\ mpc' = "scan_parse"
          /\ UNCHANGED <<stderr, exitCode>>
    /\ UNCHANGED <<cmd, stdout, restartVars, listVars, userVars, sc, out, okError,
                   stack, document, piece, result, spResult>>

\* The match on what scan_parse returned, the call of from_vdf and, when
\* that gave the iterator, the read of existing_username.
ListFromVdf ==
    /\ mpc = "scan_parse" /\ pc = "returned"
    /\ LET users_sub == subkeys(document, ROOT, UsersKey) IN
       IF spResult.kind # "Ok"
       THEN /\ calls' = Append(calls, Call("scan_parse", spResult.kind))
            /\ stderr' = Append(stderr, Line("Failed to parse logged in users data",
                                             spResult.kind))
            /\ mpc' = "exit"
            /\ exitCode' = 69
            /\ UNCHANGED <<usersSub, existing>>
       ELSE IF users_sub = NoId
       THEN /\ calls' = calls \o <<Call("scan_parse", "Ok"),
                                   Call("from_vdf", "ExpectedUsersSubkeys")>>
            /\ stderr' = Append(stderr, Line("Failed to parse logged in users data",
                                             "ExpectedUsersSubkeys"))
            /\ mpc' = "exit"
            /\ exitCode' = 69
            /\ UNCHANGED <<usersSub, existing>>
       ELSE \E phase \in CPhases, data \in RegistryValues :
            LET r == get_auto_login_user(phase, data) IN
            /\ calls' = calls \o <<Call("scan_parse", "Ok"), Call("from_vdf", "Ok"),
                                   Call("get_auto_login_user", r.err)>>
            /\ usersSub' = users_sub
            /\ existing' = r.username
            /\ mpc' = "for_each"
            /\ UNCHANGED <<stderr, exitCode>>
    /\ UNCHANGED <<cmd, stdout, restartVars, rowIdx, yielded, userVars, scanVars,
                   parseVars>>

\* One round of for_each over the iterator of from_vdf: the filter gives its
\* next row, the closure of from_vdf maps it and the closure of main prints
\* the result; when the rows are used up main returns.
ListForEach ==
    /\ mpc = "for_each"
    /\ LET i == NextRow(document, usersSub, rowIdx) IN
       IF i = 0
       THEN /\ mpc' = "exit"
            /\ exitCode' = SUCCESS
            /\ rowIdx' = Len(document)
            /\ UNCHANGED <<yielded, stdout, stderr>>
       ELSE LET user == LoginUserOf(document, document[i]) IN
            /\ rowIdx' = i
            /\ yielded' = Append(yielded, user)
            /\ IF user.tag = "Ok"
               THEN /\ stdout' = Append(stdout,
                          UserLine(user.username = existing, user.username,
                                   user.nickname))
                    /\ UNCHANGED stderr
               ELSE /\ stderr' = Append(stderr,
                                        Line("failed to read user entry", user.err))
                    /\ UNCHANGED stdout
            /\ UNCHANGED <<mpc, exitCode>>
    /\ UNCHANGED <<cmd, calls, restartVars, usersSub, existing, userVars, scanVars,
                   parseVars>>

InitMain ==
    /\ cmd \in {Command("Get", FALSE, FALSE, FALSE), Command("List", FALSE, FALSE, FALSE)}
               \cup {Command("Set", r, g, v) : r, g, v \in BOOLEAN}
    /\ mpc = "main"
    /\ calls = <<>>
    /\ killResult = "none"
    /\ polls = 0
    /\ usersSub = NoId
    /\ rowIdx = 0
    /\ yielded = <<>>
    /\ existing = NoBytes
    /\ stdout = <<>>
    /\ stderr = <<>>
    /\ exitCode = NotExited
    /\ IdleUser
    /\ IdleScan
    /\ IdleParse

NextMain ==
    \/ MainGet
    \/ MainSet \/ SetSteamNew \/ SetKill \/ SetShutdown \/ SetPoll \/ SetLaunch
    \/ ListSteamNew \/ ListVdfLoginusers \/ ListRead
    \/ ParseOne \/ LoopTest \/ ScanParseReturn
    \/ ListFromVdf \/ ListForEach

SpecMain == InitMain /\ [][NextMain]_vars

(***************************************************************************)
(* Claims about parse and scan_parse                                       *)
(*                                                                         *)
(* The reference below is the grammar of the format: a document is zero or *)
(* more entries, an entry is a key and a string, or a key, `{`, entries    *)
(* and `}`.                                                                *)
(***************************************************************************)
\* The scan of a source up to its first error: the tokens before it, and it.
RECURSIVE ScanFrom(_, _, _)
ScanFrom(src, s, toks) ==
    LET r == ScannerNextOf(src, s) IN
    IF r.item.tag = "Ok" THEN ScanFrom(src, r.sc, Append(toks, r.item))
    ELSE IF r.item.tag = "Err"
         THEN [toks |-> toks, error |-> ScanError(r.item.err, r.item.byte)]
         ELSE [toks |-> toks, error |-> NoError]

Scan(src) == ScanFrom(src, ScannerNew, <<>>)

\* A lexeme without its first and its last byte.
Unquoted(src, tok) == [i \in 1..(tok.end - tok.start - 2) |-> src[tok.start + 1 + i]]

\* The rows of the entries of a token sequence, read by the grammar from
\* token i on with the groups `open` open: ok says that the sequence is a
\* document, err names what is wrong at the first token that fits no entry,
\* depth is the number of groups open where the reading ended.
RECURSIVE Read(_, _, _, _, _)
Read(src, toks, i, open, rows) ==
    LET parent == IF open = <<>> THEN ROOT ELSE open[Len(open)]
        stop(err) == [ok |-> FALSE, err |-> err, rows |-> rows, depth |-> Len(open)]
    IN
    IF i > Len(toks)
    THEN IF open = <<>>
         THEN [ok |-> TRUE, err |-> "none", rows |-> rows, depth |-> 0]
         ELSE stop("OpenGroupAtEnd")
    ELSE IF toks[i].type = "BraceLeft" THEN stop("UnexpectedBraceLeftNoName")
    ELSE IF toks[i].type = "BraceRight"
    THEN IF open = <<>> THEN stop("UnexpectedBraceRightNoMatch")
         ELSE Read(src, toks, i + 1, SubSeq(open, 1, Len(open) - 1), rows)
    ELSE IF i = Len(toks) THEN stop("KeyAtEnd")
    ELSE IF toks[i + 1].type = "String"
    THEN Read(src, toks, i + 2, open,
              Append(rows, [parent |-> parent, key |-> Unquoted(src, toks[i]),
                            value |-> [kind |-> "String",
                                       bytes |-> Unquoted(src, toks[i + 1]),
                                       id |-> NoId]]))
    ELSE IF toks[i + 1].type = "BraceLeft"
    THEN Read(src, toks, i + 2, Append(open, toks[i].start),
              Append(rows, [parent |-> parent, key |-> Unquoted(src, toks[i]),
                            value |-> [kind |-> "Subkeys", bytes |-> <<>>,
                                       id |-> toks[i].start]]))
    ELSE stop("BraceRightAfterKey")

Reading(src) == Read(src, Scan(src).toks, 1, <<>>, <<>>)

ParseReturned == pc \in {"parsed", "returned"}

\* C4: for a well-formed sequence of n >= 0 top-level entries parse returns
\* Ok with one row for every entry, top-level and nested, in source order.
C4_AllEntriesParsed ==
    (ParseReturned /\ Scan(source).error = NoError /\ Reading(source).ok)
        => (result = "Ok" /\ document = Reading(source).rows)

\* C5: scan_parse returns on every source.
C5_Terminates == <>(pc = "returned")

\* C6: a source that is a key, `{`, complete entries and then the end of
\* input makes parse fail with ExpectedKeyValueAfterKeyName.
UnterminatedGroup(src) ==
    LET t == Scan(src) r == Reading(src) IN
    /\ t.error = NoError
    /\ Len(t.toks) >= 2
    /\ t.toks[1].type = "String"
    /\ t.toks[2].type = "BraceLeft"
    /\ r.err = "OpenGroupAtEnd"
    /\ r.depth = 1

C6_UnterminatedGroupFails ==
    UnterminatedGroup(source) => <>(result = "ExpectedKeyValueAfterKeyName")

\* C7: a `{` where a key is expected, and a `}` where a key is expected
\* while no group is open, make parse fail with UnexpectedBraceLeftNoName
\* and UnexpectedBraceRightNoMatch, also after complete top-level entries.
C7_BraceInKeyPosition ==
    (ParseReturned /\ Reading(source).err \in
        {"UnexpectedBraceLeftNoName", "UnexpectedBraceRightNoMatch"})
        => result = Reading(source).err

\* C8: when the scan of the source yields an error, scan_parse returns
\* ScanError with the first one.
C8_FirstScanError ==
    (pc = "returned" /\ Scan(source).error # NoError)
        => (spResult.kind = "ScanError" /\ spResult.scan = Scan(source).error)

\* C8 as amended: when the scanner has yielded an error to the OkIter by
\* the time parse returns, scan_parse returns ScanError with it, and it is
\* the first scan error of the source; whatever parse returned is dropped.
C8_ReachedScanError ==
    (pc = "returned" /\ okError # NoError)
        => /\ spResult.kind = "ScanError"
           /\ spResult.scan = okError
           /\ okError = Scan(source).error

\* "a" followed by an unterminated string: parse ran out of tokens after
\* the key and returned ExpectedKeyValueAfterKeyName, scan_parse returns
\* the scan error.
C8_Witness ==
    /\ pc = "returned"
    /\ result = "ExpectedKeyValueAfterKeyName"
    /\ okError = ScanError("UnterminatedString", NoByte)
    /\ spResult.kind = "ScanError"

\* The tokens parse has taken from the iterator so far.
Taken(src, s) == SelectSeq(Scan(src).toks, LAMBDA t : t.end <= s.current)

FirstUnder(doc, i) ==
    \A j \in 1..(i - 1) : ~(doc[j].parent = doc[i].parent /\ doc[j].key = doc[i].key)

Finds(doc, i) ==
    IF doc[i].value.kind = "Subkeys"
    THEN subkeys(doc, doc[i].parent, doc[i].key) = doc[i].value.id
    ELSE value_str(doc, doc[i].parent, doc[i].key) = doc[i].value.bytes

\* C9: a group entry gives a Subkeys row under the current parent and then
\* the rows of its entries under the group's id, a leaf entry a String row,
\* keys and values without their quotes; and subkeys(parent, key) and
\* value_str(parent, key) return the id and the value of every row.
C9_RowsAndLookups ==
    /\ document = Read(source, Taken(source, sc), 1, <<>>, <<>>).rows
    /\ (ParseReturned /\ result = "Ok") =>
          \A i \in 1..Len(document) : Finds(document, i)

\* C9 as amended: the rows are as above, and subkeys(parent, key) and
\* value_str(parent, key) return the id and the value of every row that no
\* earlier row under the same parent shares its key with.
C9_RowsAndFirstLookups ==
    /\ document = Read(source, Taken(source, sc), 1, <<>>, <<>>).rows
    /\ (ParseReturned /\ result = "Ok") =>
          \A i \in 1..Len(document) : FirstUnder(document, i) => Finds(document, i)

\* "a" { "A" "a" } parsed to the end, and both lookups made.
C9_Witness ==
    /\ pc = "returned" /\ spResult.kind = "Ok"
    /\ Len(document) = 2
    /\ document[1] = KeyValue(ROOT, <<97>>, SubkeysValue(0))
    /\ document[2] = KeyValue(0, <<65>>, StringValue(<<97>>))
    /\ subkeys(document, ROOT, <<97>>) = 0
    /\ value_str(document, 0, <<65>>) = <<97>>

\* The Subkeys rows before row i that carry the id `id`.
GroupsBefore(doc, i, id) ==
    {j \in 1..(i - 1) : doc[j].value.kind = "Subkeys" /\ doc[j].value.id = id}

\* C18: after every step of parse and in the Document it returns, the
\* parent of every row is ROOT or the id of exactly one Subkeys row that
\* comes earlier, no two Subkeys rows carry the same id, and no Subkeys row
\* carries ROOT.
C18_ParentsAndIds ==
    /\ \A i \in 1..Len(document) :
          \/ document[i].parent = ROOT
          \/ Cardinality(GroupsBefore(document, i, document[i].parent)) = 1
    /\ \A i, j \in 1..Len(document) :
          (/\ i # j
           /\ document[i].value.kind = "Subkeys"
           /\ document[j].value.kind = "Subkeys")
          => document[i].value.id # document[j].value.id
    /\ \A i \in 1..Len(document) :
          document[i].value.kind = "Subkeys" => document[i].value.id # ROOT

\* "a" { "a" { } } returned: a group inside a group, each with its own id.
C18_Witness ==
    /\ pc = "returned" /\ spResult.kind = "Ok"
    /\ Len(document) = 2
    /\ document[1].parent = ROOT /\ document[1].value.kind = "Subkeys"
    /\ document[2].parent = document[1].value.id
    /\ document[2].value.kind = "Subkeys"
    /\ document[2].value.id # document[1].value.id

\* The rows of the document under `at` whose key is byte-equal to `key`.
Matching(doc, at, key) ==
    {i \in 1..Len(doc) : doc[i].parent = at /\ doc[i].key = key}

\* The first of them in document order, 0 when there is none.
FirstMatching(doc, at, key) ==
    LET m == Matching(doc, at, key) IN
    IF m = {} THEN 0 ELSE CHOOSE i \in m : \A j \in m : i <= j

\* The parents and keys the lookups are asked for: ROOT, every id and every
\* parent in the document, with the keys `a` and `A`.
LookupParents(doc) ==
    {ROOT} \cup {doc[i].parent : i \in 1..Len(doc)}
           \cup {doc[i].value.id : i \in 1..Len(doc)}

LookupKeys == {<<97>>, <<65>>, <<>>}

\* C19: subkeys and value_str are decided by the first row in document order
\* with the asked parent and a byte-equal key alone: subkeys gives its id
\* when it is a Subkeys row, value_str its bytes when it is a String row,
\* and each gives None when no row matches or when that first row is of the
\* other kind, whatever later rows hold; rows under other parents and keys
\* that differ in case only never match.
C19_FirstRowDecides ==
    \A at \in LookupParents(document), key \in LookupKeys :
        LET f == FirstMatching(document, at, key) IN
        /\ subkeys(document, at, key) =
              (IF f # 0 /\ document[f].value.kind = "Subkeys"
               THEN document[f].value.id ELSE NoId)
        /\ value_str(document, at, key) =
              (IF f # 0 /\ document[f].value.kind = "String"
               THEN document[f].value.bytes ELSE NoBytes)

\* "a" { "a" "a" "a" {  : under the group the key `a` is first a leaf and
\* then a group, and `A` is no key at all.
C19_Witness ==
    /\ Len(document) = 3
    /\ document[2] = KeyValue(0, <<97>>, StringValue(<<97>>))
    /\ document[3].parent = 0 /\ document[3].key = <<97>>
    /\ document[3].value.kind = "Subkeys"
    /\ subkeys(document, 0, <<97>>) = NoId
    /\ value_str(document, 0, <<97>>) = <<97>>
    /\ value_str(document, 0, <<65>>) = NoBytes

\* The indices of the rows directly under the group `id`, in document order.
ChildrenOf(doc, id) ==
    SelectSeq([i \in 1..Len(doc) |-> i], LAMBDA i : doc[i].parent = id)

\* The String rows under the group `id` with the key `key`.
StringsOf(doc, id, key) ==
    {j \in 1..Len(doc) : /\ doc[j].parent = id /\ doc[j].key = key
                         /\ doc[j].value.kind = "String"}

\* The bytes of the first of them.
FirstStringOf(doc, id, key) ==
    LET m == StringsOf(doc, id, key) IN
    doc[CHOOSE j \in m : \A k \in m : j <= k].value.bytes

\* What the entry in row i under "users" is to give: the error of its kind,
\* or the two names of the user.
EntryResult(doc, i) ==
    LET id == doc[i].value.id
        fail(err) == [tag |-> "Err", err |-> err, username |-> NoBytes,
                      nickname |-> NoBytes]
    IN  IF doc[i].value.kind # "Subkeys" THEN fail("ExpectedUserEntryToBeSubkeys")
        ELSE IF StringsOf(doc, id, AccountNameKey) = {}
             THEN fail("ExpectedAccountNameKey")
        ELSE IF StringsOf(doc, id, PersonaNameKey) = {}
             THEN fail("ExpectedPersonaNameKey")
        ELSE [tag |-> "Ok", err |-> "none",
              username |-> FirstStringOf(doc, id, AccountNameKey),
              nickname |-> FirstStringOf(doc, id, PersonaNameKey)]

Names(r) == [tag |-> r.tag, err |-> r.err, username |-> r.username,
             nickname |-> r.nickname]

\* The lines List prints for the results r: one on stdout for every record,
\* one on stderr for every error.
PrintedUsers(rs) ==
    LET ok == SelectSeq(rs, LAMBDA r : r.tag = "Ok") IN
    [k \in 1..Len(ok) |-> <<ok[k].username, ok[k].nickname>>]

PrintedErrors(rs) ==
    LET bad == SelectSeq(rs, LAMBDA r : r.tag = "Err") IN
    [k \in 1..Len(bad) |-> Line("failed to read user entry", bad[k].err)]

ListIterates == cmd.name = "List" /\ mpc \in {"for_each", "exit"} /\ usersSub # NoId

\* C13: with a top-level "users" group, from_vdf yields one result for every
\* row directly under it, in document order: the error of the entry's kind
\* for an entry that is no group or lacks a name, the record otherwise,
\* whatever the entries before it gave; List prints a line for every error
\* and every record, and has gone through all entries when it returns.
C13_OneResultPerEntry ==
    ListIterates =>
        LET entries == ChildrenOf(document, usersSub) IN
        /\ usersSub = document[FirstMatching(document, ROOT, UsersKey)].value.id
        /\ Len(yielded) <= Len(entries)
        /\ \A k \in 1..Len(yielded) :
              Names(yielded[k]) = EntryResult(document, entries[k])
        /\ mpc = "exit" => Len(yielded) = Len(entries)
        /\ [k \in 1..Len(stdout) |-> <<stdout[k].username, stdout[k].nickname>>]
              = PrintedUsers(yielded)
        /\ stderr = PrintedErrors(yielded)

\* A leaf entry, a user without AccountName and then user bbbb: two errors
\* reported, the record printed after them.
C13_Witness ==
    /\ cmd.name = "List" /\ mpc = "exit" /\ exitCode = SUCCESS
    /\ Len(yielded) = 3
    /\ yielded[1].err = "ExpectedUserEntryToBeSubkeys"
    /\ yielded[2].err = "ExpectedAccountNameKey"
    /\ yielded[3].tag = "Ok"
    /\ Len(stderr) = 2
    /\ Len(stdout) = 1 /\ stdout[1].username = <<98, 98, 98, 98>>

\* C14: for a user group that has both names, allow_auto_login is false when
\* the group has no AllowAutoLogin string value and when that value (the
\* first in document order) is the one byte `0`, and true for every other
\* value, the empty string and `00` among them.
C14_AllowAutoLogin ==
    ListIterates =>
        LET entries == ChildrenOf(document, usersSub) IN
        \A k \in 1..Len(yielded) :
            yielded[k].tag = "Ok" =>
                LET id == document[entries[k]].value.id IN
                yielded[k].allow_auto_login =
                    IF StringsOf(document, id, AllowAutoLoginKey) = {} THEN FALSE
                    ELSE FirstStringOf(document, id, AllowAutoLoginKey) # <<48>>

\* A user whose AllowAutoLogin is first the empty string and then `0`.
C14_Witness ==
    /\ ListIterates
    /\ Len(yielded) = 1 /\ yielded[1].tag = "Ok" /\ yielded[1].allow_auto_login
    /\ \E i, j \in 1..Len(document) :
          /\ i < j
          /\ document[i].key = AllowAutoLoginKey /\ document[i].value.bytes = <<>>
          /\ document[j].key = AllowAutoLoginKey /\ document[j].value.bytes = <<48>>

\* The calls of the restart in `calls`: of launch or launch_fast, and of the
\* termination step.
LaunchCalls == {i \in 1..Len(calls) : calls[i].op \in {"launch", "launch_fast"}}

TerminationCalls(graceful) ==
    {i \in 1..Len(calls) : calls[i].op = (IF graceful THEN "shutdown" ELSE "kill")}

RestartBegun ==
    cmd.name = "Set" /\ \E i \in 1..Len(calls) : calls[i] = Call("new", "Ok")

\* C15: in the restart of Set, once the identity is written and the client
\* found, one launch is attempted after the termination step has returned,
\* with Ok or with any error: none before the step has returned, one when
\* main returns, made with launch under verify and launch_fast otherwise;
\* the error of the step is printed and changes nothing else.
C15_AlwaysLaunches ==
    RestartBegun =>
        /\ Cardinality(LaunchCalls) <= 1
        /\ mpc \in {"terminate", "poll", "launch"} => LaunchCalls = {}
        /\ mpc = "launch" => killResult # "none"
        /\ mpc = "exit" =>
              /\ Cardinality(TerminationCalls(cmd.graceful)) = 1
              /\ LaunchCalls = {Len(calls)}
              /\ \A i \in TerminationCalls(cmd.graceful) : i < Len(calls)
              /\ calls[Len(calls)].op =
                    (IF cmd.verify THEN "launch" ELSE "launch_fast")
              /\ killResult # "Ok" =>
                    \E k \in 1..Len(stderr) :
                        stderr[k] = KillReport(cmd.graceful, killResult)
              /\ exitCode = SUCCESS

\* kill failed with KillSteam, and launch was called under verify.
C15_Witness ==
    /\ RestartBegun /\ mpc = "exit"
    /\ cmd.verify /\ ~cmd.graceful
    /\ killResult = "KillSteam"
    /\ calls[Len(calls)].op = "launch"

\* The termination step of a graceful restart has returned the error of
\* the phase WaitSteamExit.
ShutdownFailedWaiting ==
    /\ RestartBegun /\ cmd.graceful
    /\ killResult = "WaitSteamExit"

\* C16: a graceful restart whose shutdown fails at the phase WaitSteamExit
\* reports a WaitSteamExit error and calls neither launch nor launch_fast
\* afterwards.
C16_NoLaunchAfterWaitError ==
    ShutdownFailedWaiting =>
        /\ LaunchCalls = {}
        /\ mpc = "exit" =>
              \E k \in 1..Len(stderr) : stderr[k].err = "WaitSteamExit"

\* C16 as the code has it: the WaitSteamExit error is reported and launch or
\* launch_fast is still called, once, after the failed shutdown.
C16_LaunchAfterWaitError ==
    (ShutdownFailedWaiting /\ mpc = "exit") =>
        /\ \E k \in 1..Len(stderr) :
              /\ stderr[k].err = "WaitSteamExit"
              /\ stderr[k] = KillReport(TRUE, "WaitSteamExit")
        /\ Cardinality(LaunchCalls) = 1
        /\ \A i \in LaunchCalls :
              /\ \E j \in TerminationCalls(TRUE) : j < i
              /\ calls[i].op = (IF cmd.verify THEN "launch" ELSE "launch_fast")
        /\ exitCode = SUCCESS

\* shutdown failed with WaitSteamExit, and launch_fast was called and
\* succeeded.
C16_Witness ==
    /\ ShutdownFailedWaiting /\ mpc = "exit"
    /\ calls[Len(calls) - 1] = Call("shutdown", "WaitSteamExit")
    /\ calls[Len(calls)] = Call("launch_fast", "Ok")

\* The operations that are the primary operation of each command.
PrimaryOps ==
    IF cmd.name = "Get" THEN {"get_auto_login_user"}
    ELSE IF cmd.name = "Set" THEN {"set_auto_login_user"}
    ELSE {"new", "vdf_loginusers", "read_to_string", "scan_parse", "from_vdf"}

PrimaryFailures ==
    {i \in 1..Len(calls) : calls[i].op \in PrimaryOps /\ calls[i].res # "Ok"}

\* C17: when the primary operation of a command fails main returns a status
\* that is not 0: 78 when the stored identifier is invalid, 69 for every
\* other failure; it returns 0 only when the operation succeeded.
C17_ExitStatus ==
    mpc = "exit" =>
        /\ \A i \in PrimaryFailures :
              exitCode = (IF calls[i].res = "InvalidUsernameInRegistry"
                          THEN 78 ELSE 69)
        /\ exitCode = 0 => PrimaryFailures = {}

====
